---- MODULE Spec2Model ----
(***************************************************************************)
(* A model of the reservation backend of src/server.js: the handlers       *)
(* POST /api/reservations and GET /api/reservations/:id, the two           *)
(* collections they work on, the mail transport they call, and the rooms   *)
(* being changed and deleted by whoever maintains them.                    *)
(*                                                                         *)
(* Strings are tuples of one-character strings, so that the validators     *)
(* and the ObjectId constructor read them character by character, as the   *)
(* libraries do.  A JSON value is a record tagged with its JavaScript      *)
(* type.                                                                   *)
(***************************************************************************)
EXTENDS Integers, Sequences, FiniteSets, TLC

\* ------------------------------------------------------------- bounds

\* Requests served in one behaviour (each is one POST or one GET).
MaxRequests == 2

\* ------------------------------------------------------------- values

Undefined == [t |-> "undefined"]

Str(s) == [t |-> "string", v |-> s]

Num(n) == [t |-> "number", v |-> n]

IsUndefined(x) == x.t = "undefined"

DigitChars == {"0", "1", "2", "3", "4", "5", "6", "7", "8", "9"}

HexChars == DigitChars \cup {"a", "b", "c", "d", "e", "f", "A", "B", "C", "D", "E", "F"}

\* The code units JavaScript's \s matches, which trim() strips from both
\* ends.  One that has no escape in a TLA+ string is written as its code
\* point: "U+3000" is one character of a string of this model.
WhiteSpace ==
  {"\t", "\n", "U+000B", "\f", "\r", " ", "U+00A0", "U+1680",
   "U+2000", "U+2001", "U+2002", "U+2003", "U+2004", "U+2005", "U+2006",
   "U+2007", "U+2008", "U+2009", "U+200A", "U+2028", "U+2029", "U+202F",
   "U+205F", "U+3000", "U+FEFF"}

DigitVal(c) ==
  CASE c = "0" -> 0 [] c = "1" -> 1 [] c = "2" -> 2 [] c = "3" -> 3
    [] c = "4" -> 4 [] c = "5" -> 5 [] c = "6" -> 6 [] c = "7" -> 7
    [] c = "8" -> 8 [] c = "9" -> 9 [] OTHER -> 0

DigitChar(n) ==
  CASE n = 0 -> "0" [] n = 1 -> "1" [] n = 2 -> "2" [] n = 3 -> "3"
    [] n = 4 -> "4" [] n = 5 -> "5" [] n = 6 -> "6" [] n = 7 -> "7"
    [] n = 8 -> "8" [] OTHER -> "9"

Rep(c, n) == [i \in 1..n |-> c]

AllIn(s, S) == \A i \in 1..Len(s) : s[i] \in S

\* The decimal value of a string of digits.
RECURSIVE DecVal(_)
DecVal(s) ==
  IF Len(s) = 0 THEN 0
  ELSE 10 * DecVal(SubSeq(s, 1, Len(s) - 1)) + DigitVal(s[Len(s)])

\* Number.prototype.toString for the integers of the model.
RECURSIVE NatStr(_)
NatStr(n) ==
  IF n < 10 THEN <<DigitChar(n)>> ELSE NatStr(n \div 10) \o <<DigitChar(n % 10)>>

IntStr(n) == IF n < 0 THEN <<"-">> \o NatStr(0 - n) ELSE NatStr(n)

\* express-validator's toString: what a standard validator or sanitizer
\* is handed for a value of the request body.
toString(x) ==
  CASE x.t = "string" -> x.v
    [] x.t = "number" -> IntStr(x.v)
    [] OTHER -> <<>>

\* ---------------------------------------------------------- validators

isString(x) == x.t = "string"

RECURSIVE TrimLeft(_)
TrimLeft(s) ==
  IF Len(s) > 0 /\ s[1] \in WhiteSpace THEN TrimLeft(Tail(s)) ELSE s

RECURSIVE TrimRight(_)
TrimRight(s) ==
  IF Len(s) > 0 /\ s[Len(s)] \in WhiteSpace
  THEN TrimRight(SubSeq(s, 1, Len(s) - 1)) ELSE s

trim(s) == TrimRight(TrimLeft(s))

isLength(s, min, max) == Len(s) >= min /\ Len(s) <= max

notEmpty(s) == Len(s) # 0

\* /^\d{3}-\d{4}$/
MatchesPostalCode(s) ==
  /\ Len(s) = 8
  /\ s[4] = "-"
  /\ \A i \in {1, 2, 3, 5, 6, 7, 8} : s[i] \in DigitChars

\* /^\d{10,11}$/
MatchesPhone(s) == Len(s) \in {10, 11} /\ AllIn(s, DigitChars)

\* validator.js isInt: /^[-+]?[0-9]+$/ (leading zeroes are allowed unless
\* the options say otherwise), then the min option on the string's value.
IntDigits(s) == IF Len(s) > 0 /\ s[1] \in {"-", "+"} THEN Tail(s) ELSE s

IntValue(s) ==
  IF Len(s) > 0 /\ s[1] = "-" THEN 0 - DecVal(IntDigits(s)) ELSE DecVal(IntDigits(s))

isInt(s, min) ==
  /\ Len(IntDigits(s)) > 0
  /\ AllIn(IntDigits(s), DigitChars)
  /\ IntValue(s) >= min

\* validator.js isHexadecimal: /^(0x|0h)?[0-9A-F]+$/i
HexBody(s) ==
  IF Len(s) >= 2 /\ s[1] = "0" /\ s[2] \in {"x", "h", "X", "H"}
  THEN SubSeq(s, 3, Len(s)) ELSE s

isHexadecimal(s) == Len(HexBody(s)) > 0 /\ AllIn(HexBody(s), HexChars)

\* validator.js isMongoId: isHexadecimal(str) && str.length === 24
isMongoId(s) == isHexadecimal(s) /\ Len(s) = 24

\* validator.js isISO8601, for the calendar-date form YYYY-MM-DD, the one
\* form the requests of this model use: four digits, a month 01..12 and a
\* day 01..31 (the non-strict check does not look at the month's length).
IsoShape(s) ==
  /\ Len(s) = 10
  /\ s[5] = "-" /\ s[8] = "-"
  /\ \A i \in {1, 2, 3, 4, 6, 7, 9, 10} : s[i] \in DigitChars

IsoMonth(s) == DecVal(SubSeq(s, 6, 7))

IsoDay(s) == DecVal(SubSeq(s, 9, 10))

IsoYear(s) == DecVal(SubSeq(s, 1, 4))

isISO8601(s) ==
  /\ IsoShape(s)
  /\ IsoMonth(s) \in 1..12
  /\ IsoDay(s) \in 1..31

\* validator.js isEmail, on the addresses the requests of this model use.
Email_taro == <<"t", "@", "e", ".", "j", "p">>

Email_bad == <<"t", "a", "r", "o">>

isEmail(s) == s \in {Email_taro}

\* new Date(string) for a date-only ISO string: the day number of the
\* date (the time value in days), or NaN (Invalid Date).  A day past the
\* month's end rolls over into the next month, as V8's parser has it.
\* (A body value that is no string is undefined in the requests of this
\* model, and new Date(undefined) is Invalid Date.)
NaN == [nan |-> TRUE]

IsLeap(y) == (y % 4 = 0 /\ y % 100 # 0) \/ y % 400 = 0

DaysBeforeYear(y) ==
  365 * y + ((y + 3) \div 4) - ((y + 99) \div 100) + ((y + 399) \div 400)

DaysBeforeMonth(m, leap) ==
  LET cum == <<0, 31, 59, 90, 120, 151, 181, 212, 243, 273, 304, 334>> IN
    cum[m] + (IF leap /\ m > 2 THEN 1 ELSE 0)

DateOf(x) ==
  IF x.t = "string" /\ isISO8601(x.v)
  THEN [nan |-> FALSE,
        time |-> DaysBeforeYear(IsoYear(x.v))
                 + DaysBeforeMonth(IsoMonth(x.v), IsLeap(IsoYear(x.v)))
                 + IsoDay(x.v)]
  ELSE NaN

\* a <= b on two Dates: false when either is NaN.
DateLeq(a, b) == ~a.nan /\ ~b.nan /\ a.time <= b.time

\* JavaScript's Number(x) of a body value that passed isInt.
NumberOf(x) == IF x.t = "number" THEN x.v ELSE IntValue(toString(x))

\* ------------------------------------------------------------ ObjectId

LowerOf(c) ==
  CASE c = "A" -> "a" [] c = "B" -> "b" [] c = "C" -> "c"
    [] c = "D" -> "d" [] c = "E" -> "e" [] c = "F" -> "f" [] OTHER -> c

\* ObjectId.prototype.toHexString: the twelve bytes in lower-case hex.
ToLowerHex(s) == [i \in 1..Len(s) |-> LowerOf(s[i])]

Letters ==
  <<"a", "b", "c", "d", "e", "f", "g", "h", "i", "j", "k", "l", "m",
    "n", "o", "p", "q", "r", "s", "t", "u", "v", "w", "x", "y", "z">>

\* The character's code (digits, "-" and the lower-case letters).
CharCode(c) ==
  IF c \in DigitChars THEN 48 + DigitVal(c)
  ELSE IF c = "-" THEN 45
  ELSE 96 + (CHOOSE i \in 1..26 : Letters[i] = c)

HexDigit(n) == IF n < 10 THEN DigitChar(n) ELSE Letters[n - 9]

RECURSIVE BytesHex(_)
BytesHex(s) ==
  IF Len(s) = 0 THEN <<>>
  ELSE <<HexDigit(CharCode(s[1]) \div 16), HexDigit(CharCode(s[1]) % 16)>>
       \o BytesHex(Tail(s))

\* The message of the BSONError the constructor throws: that of bson up
\* to version 5, and that of bson from version 6.
BSONMessage_5 ==
  "Argument passed in must be a string of 12 bytes or a string of 24 hex characters or an integer"

BSONMessage_6 ==
  "input must be a 24 character hex string, 12 byte Uint8Array, or an integer"

Thrown(m) == [ok |-> FALSE, message |-> m]

\* new ObjectId(string): the outcomes the constructor has.  A string of 24
\* hex characters is the identifier it spells.  Any other string throws,
\* but for one of 12 characters, which the driver's bson takes as the 12
\* bytes themselves up to version 5 and throws on from version 6: the
\* outcomes of both are kept.
ObjectId(s) ==
  IF Len(s) = 24 /\ AllIn(s, HexChars) THEN {[ok |-> TRUE, id |-> ToLowerHex(s)]}
  ELSE IF Len(s) = 12 THEN {Thrown(BSONMessage_6), [ok |-> TRUE, id |-> BytesHex(s)]}
  ELSE {Thrown(BSONMessage_5), Thrown(BSONMessage_6)}

\* --------------------------------------------------------- validation

Check(passed, path, msg) ==
  IF passed THEN <<>> ELSE <<[path |-> path, msg |-> msg]>>

\* body('userId').optional().isString()
Chain_userId(b) ==
  IF IsUndefined(b.userId) THEN <<>>
  ELSE Check(isString(b.userId), "userId", "must be a string")

\* body('name').isString().trim().isLength({min: 2, max: 50}).notEmpty()
Chain_name(b) ==
  LET v == trim(toString(b.name)) IN
    Check(isString(b.name), "name", "must be a string")
    \o Check(isLength(v, 2, 50), "name", "must be 2 to 50 characters")
    \o Check(notEmpty(v), "name", "is required")

\* body('email').isEmail().notEmpty()
Chain_email(b) ==
  LET v == toString(b.email) IN
    Check(isEmail(v), "email", "must be a valid address")
    \o Check(notEmpty(v), "email", "is required")

\* body('postalCode').matches(/^\d{3}-\d{4}$/).notEmpty()
Chain_postalCode(b) ==
  LET v == toString(b.postalCode) IN
    Check(MatchesPostalCode(v), "postalCode", "must have the form 123-4567")
    \o Check(notEmpty(v), "postalCode", "is required")

\* body('address').isString().trim().isLength({min: 5, max: 100}).notEmpty()
Chain_address(b) ==
  LET v == trim(toString(b.address)) IN
    Check(isString(b.address), "address", "must be a string")
    \o Check(isLength(v, 5, 100), "address", "must be 5 to 100 characters")
    \o Check(notEmpty(v), "address", "is required")

\* body('phone').matches(/^\d{10,11}$/).notEmpty()
Chain_phone(b) ==
  LET v == toString(b.phone) IN
    Check(MatchesPhone(v), "phone", "must be 10 to 11 digits")
    \o Check(notEmpty(v), "phone", "is required")

\* body('roomType').isString().notEmpty()
Chain_roomType(b) ==
  Check(isString(b.roomType), "roomType", "must be a string")
  \o Check(notEmpty(toString(b.roomType)), "roomType", "is required")

\* body('checkIn').isISO8601().notEmpty()
Chain_checkIn(b) ==
  LET v == toString(b.checkIn) IN
    Check(isISO8601(v), "checkIn", "must be a valid date")
    \o Check(notEmpty(v), "checkIn", "is required")

\* The custom validator of checkOut: it throws when checkOutDate <=
\* checkInDate, both made by new Date from the body's values.
CheckOutAfterCheckIn(b) == ~DateLeq(DateOf(b.checkOut), DateOf(b.checkIn))

\* body('checkOut').isISO8601().notEmpty().custom(...)
Chain_checkOut(b) ==
  LET v == toString(b.checkOut) IN
    Check(isISO8601(v), "checkOut", "must be a valid date")
    \o Check(notEmpty(v), "checkOut", "is required")
    \o Check(CheckOutAfterCheckIn(b), "checkOut", "must be after checkIn")

\* body('nights').isInt({min: 1}).notEmpty()
Chain_nights(b) ==
  LET v == toString(b.nights) IN
    Check(isInt(v, 1), "nights", "must be an integer of 1 or more")
    \o Check(notEmpty(v), "nights", "is required")

\* body('guests').isInt({min: 1}).notEmpty()
Chain_guests(b) ==
  LET v == toString(b.guests) IN
    Check(isInt(v, 1), "guests", "must be an integer of 1 or more")
    \o Check(notEmpty(v), "guests", "is required")

\* body('roomId').isMongoId().notEmpty()
Chain_roomId(b) ==
  LET v == toString(b.roomId) IN
    Check(isMongoId(v), "roomId", "must be a valid ObjectId")
    \o Check(notEmpty(v), "roomId", "is required")

\* validationResult(req).array(): the errors of the chains, in their order.
validationResult(b) ==
  Chain_userId(b) \o Chain_name(b) \o Chain_email(b) \o Chain_postalCode(b)
  \o Chain_address(b) \o Chain_phone(b) \o Chain_roomType(b)
  \o Chain_checkIn(b) \o Chain_checkOut(b) \o Chain_nights(b)
  \o Chain_guests(b) \o Chain_roomId(b)

\* The body as the chains leave it: trim() writes the trimmed string back.
Sanitized(b) ==
  [b EXCEPT !.name = Str(trim(toString(b.name))),
            !.address = Str(trim(toString(b.address)))]

\* -------------------------------------------------------------- inputs

RoomA_Id == Rep("0", 23) \o <<"a">>

RoomB_Id == Rep("0", 23) \o <<"b">>

\* RoomA_Id written in upper case: the same ObjectId.
RoomA_IdUpper == Rep("0", 23) \o <<"A">>

\* A well-formed identifier no document of either collection has.
Unknown_Id == Rep("0", 23) \o <<"c">>

\* 24 characters that isHexadecimal accepts (a 0x prefix) and that are not
\* 24 hex characters.
Prefixed_Id == <<"0", "x">> \o Rep("0", 21) \o <<"a">>

Short_Id == <<"a", "b", "c">>

Twelve_Id == <<"r", "e", "s", "e", "r", "v", "a", "t", "i", "o", "n", "1">>

\* The n-th identifier the driver generates (ObjectIds made in one process
\* differ: they end in a counter).
GenId(n) == Rep("0", 23) \o <<HexDigit(n)>>

\* The prices a room is given.
Prices == {10000, 12000}

InitRooms ==
  { [_id |-> RoomA_Id, name |-> <<"S", "t", "d">>, price |-> 10000,
     image |-> <<"a", ".", "j", "p", "g">>],
    [_id |-> RoomB_Id, name |-> <<"D", "x">>, price |-> 12000,
     image |-> <<"b", ".", "j", "p", "g">>] }

Date_0501 == <<"2", "0", "2", "5", "-", "0", "5", "-", "0", "1">>

Date_0503 == <<"2", "0", "2", "5", "-", "0", "5", "-", "0", "3">>

Date_0430 == <<"2", "0", "2", "5", "-", "0", "4", "-", "3", "0">>

\* The example payload of the specification, its strings shortened.
BasePayload ==
  [userId |-> Undefined,
   name |-> Str(<<"T", "a", "r", "o">>),
   email |-> Str(Email_taro),
   postalCode |-> Str(<<"1", "2", "3", "-", "4", "5", "6", "7">>),
   address |-> Str(<<"1", "-", "2", "-", "3">>),
   phone |-> Str(<<"0", "9", "0", "1", "2", "3", "4", "5", "6", "7", "8">>),
   roomType |-> Str(<<"s", "t", "d">>),
   checkIn |-> Str(Date_0501),
   checkOut |-> Str(Date_0503),
   nights |-> Num(2),
   guests |-> Num(2),
   roomId |-> Str(RoomA_Id)]

\* The example with every field replaced by a value its chain rejects.
AllBadPayload ==
  [userId |-> Num(7),
   name |-> Str(<<"T">>),
   email |-> Str(Email_bad),
   postalCode |-> Str(<<"1", "2", "3", "4", "5", "6", "7">>),
   address |-> Str(<<"1", "-", "2">>),
   phone |-> Str(<<"0", "9", "0">>),
   roomType |-> Str(<<>>),
   checkIn |-> Undefined,
   checkOut |-> Undefined,
   nights |-> Num(0),
   guests |-> Str(<<"t", "w", "o">>),
   roomId |-> Undefined]

\* The example written otherwise: a user, a name to be trimmed of a space,
\* an ideographic space and a line feed, the nights as a string, the
\* room's identifier in upper case.
OtherValidPayload ==
  [BasePayload EXCEPT !.userId = Str(<<"u", "1">>),
                      !.name = Str(<<"U+3000", " ", "T", "a", "r", "o", "\n">>),
                      !.nights = Str(<<"3">>),
                      !.roomId = Str(RoomA_IdUpper)]

\* The request bodies of the model.
Payloads ==
  { BasePayload,
    OtherValidPayload,
    [BasePayload EXCEPT !.userId = Str(<<>>)],
    [BasePayload EXCEPT !.name = Str(<<"\t", "A">>)],
    [BasePayload EXCEPT !.roomId = Str(Unknown_Id)],
    [BasePayload EXCEPT !.roomId = Str(Prefixed_Id)],
    [BasePayload EXCEPT !.roomId = Str(Short_Id)],
    [BasePayload EXCEPT !.checkOut = Str(Date_0430)],
    [BasePayload EXCEPT !.checkOut = Str(Date_0501)],
    AllBadPayload }

\* The messages of the errors the store rejects an operation with.
StoreErrors == {"store fault"}

\* The :id path parameters of the model.
PathIds == {GenId(1), Unknown_Id, Short_Id, Twelve_Id}

Requests == 1..MaxRequests

\* --------------------------------------------------------------- state

VARIABLES
  rooms,          \* the rooms collection: a set of documents
  reservations,   \* the reservations collection, in insertion order
  nextOid,        \* the counter of the driver's ObjectId generator
  pc,             \* where each request's handler stands
  req,            \* the request: method, body as sent, body as sanitized, :id
  oid,            \* the handler's new ObjectId(...)
  reservation,    \* the handler's reservation object (built, or fetched)
  resp,           \* the response sent
  storeOps,       \* the store operations the handler has issued
  mail,           \* the handler's sendMail call: the message, and whether
                  \* the transport has delivered it ("sent") or failed
  roomSeen,       \* the room document the handler's lookup returned
  roomAtInsert,   \* "present" or "absent": the reservation's room when the
                  \* store performed the insert ("" before it)
  rejected        \* the store operation of the handler that the store
                  \* rejected ("" when none was)

vars ==
  <<rooms, reservations, nextOid, pc, req, oid, reservation, resp, storeOps,
    mail, roomSeen, roomAtInsert, rejected>>

Nil == [nil |-> TRUE]

NoResponse == [status |-> 0]

\* collection.findOne({_id: id}): the document, or null.
findOne(docs, id) ==
  IF \E d \in docs : d._id = id THEN CHOOSE d \in docs : d._id = id ELSE Nil

Range(q) == {q[i] : i \in 1..Len(q)}

Init ==
  /\ rooms = InitRooms
  /\ reservations = <<>>
  /\ nextOid = 1
  /\ pc = [r \in Requests |-> "idle"]
  /\ req = [r \in Requests |-> Nil]
  /\ oid = [r \in Requests |-> Nil]
  /\ reservation = [r \in Requests |-> Nil]
  /\ resp = [r \in Requests |-> NoResponse]
  /\ storeOps = [r \in Requests |-> <<>>]
  /\ mail = [r \in Requests |-> [state |-> "none"]]
  /\ roomSeen = [r \in Requests |-> Nil]
  /\ roomAtInsert = [r \in Requests |-> ""]
  /\ rejected = [r \in Requests |-> ""]

\* res.status(s).json(body), the handler's last act.
Respond(r, s, body) ==
  /\ resp' = [resp EXCEPT ![r] = [status |-> s, body |-> body]]
  /\ pc' = [pc EXCEPT ![r] = "done"]

\* Line 187: the body of the POST handler's 500.
FailedToCreate(message) == [error |-> "Failed to create reservation: " \o message]

\* Line 205: the body of the GET handler's 500.
FailedToFetch == [error |-> "Failed to fetch reservation"]

\* Requests arrive in the order of their numbers.
Arrives(r) == pc[r] = "idle" /\ (IF r = 1 THEN TRUE ELSE pc[r - 1] # "idle")

\* HasErrors with the handler going on whatever the chains found.
HasErrors_Ignored(errors) == FALSE

\* !errors.isEmpty()
HasErrors(errors) == errors # <<>>

\* JavaScript's truthiness of a body value.
Truthy(x) ==
  CASE x.t = "string" -> Len(x.v) > 0
    [] x.t = "number" -> x.v # 0
    [] OTHER -> FALSE

Guest == Str(<<"g", "u", "e", "s", "t">>)

\* BuildReservation with the whole room document as roomDetails.
BuildReservation_WholeRoom(b, room, id) ==
  [userId |-> IF Truthy(b.userId) THEN b.userId ELSE Guest,
   name |-> b.name,
   email |-> b.email,
   postalCode |-> b.postalCode,
   address |-> b.address,
   phone |-> b.phone,
   roomId |-> id,
   roomType |-> b.roomType,
   checkIn |-> DateOf(b.checkIn),
   checkOut |-> DateOf(b.checkOut),
   nights |-> b.nights,
   guests |-> b.guests,
   status |-> "confirmed",
   roomDetails |-> room]

\* The reservation object the handler builds from the body, the room found
\* and new ObjectId(roomId).  (createdAt, the wall clock's time, is left
\* out: nothing in the handlers reads it.)
BuildReservation(b, room, id) ==
  [userId |-> IF Truthy(b.userId) THEN b.userId ELSE Guest,
   name |-> b.name,
   email |-> b.email,
   postalCode |-> b.postalCode,
   address |-> b.address,
   phone |-> b.phone,
   roomId |-> id,
   roomType |-> b.roomType,
   checkIn |-> DateOf(b.checkIn),
   checkOut |-> DateOf(b.checkOut),
   nights |-> b.nights,
   guests |-> b.guests,
   status |-> "confirmed",
   roomDetails |-> [price |-> room.price, image |-> room.image, name |-> room.name]]

\* The message handed to sendMail.
MailOptions(res, id) ==
  [to |-> res.email,
   totalPrice |-> res.roomDetails.price * NumberOf(res.nights) * NumberOf(res.guests),
   reservationId |-> id]

\* { id: result.insertedId, ...reservation }; insertOne has set the
\* object's _id to the identifier it generated.
InsertedReservation(res) ==
  [f \in {"id"} \cup DOMAIN res |-> IF f = "id" THEN res._id ELSE res[f]]

WithId(res, id) ==
  [f \in {"_id"} \cup DOMAIN res |-> IF f = "_id" THEN id ELSE res[f]]

\* ------------------------------------------- POST /api/reservations

\* The request arrives, the validation chains run, and the handler runs up
\* to its first await: the 400 of a validation failure, the 500 of a
\* new ObjectId(roomId) that throws, or the rooms.findOne it issues.
CreateReservation(r, b) ==
  /\ Arrives(r)
  /\ req' = [req EXCEPT ![r] = [method |-> "POST", sent |-> b, body |-> Sanitized(b)]]
  /\ IF HasErrors(validationResult(b))
     THEN /\ Respond(r, 400, [errors |-> validationResult(b)])
          /\ UNCHANGED <<oid, storeOps>>
     ELSE \E o \in ObjectId(toString(b.roomId)) :
            IF o.ok
            THEN /\ oid' = [oid EXCEPT ![r] = o.id]
                 /\ storeOps' = [storeOps EXCEPT ![r] = Append(@, "rooms.findOne")]
                 /\ pc' = [pc EXCEPT ![r] = "awaitRoom"]
                 /\ UNCHANGED resp
            ELSE /\ Respond(r, 500, FailedToCreate(o.message))
                 /\ UNCHANGED <<oid, storeOps>>
  /\ UNCHANGED <<rooms, reservations, nextOid, reservation, mail, roomSeen,
                 roomAtInsert, rejected>>

\* Lines 114-117: the response of a room that does not exist.
RoomNotFound(r) ==
  Respond(r, 400, [errors |-> <<[msg |-> "room does not exist"]>>])

\* rooms.findOne settles.  Rejected: the 500 of the outer catch.  No room:
\* the 400 of a room that does not exist.  A room: the handler builds the
\* reservation and issues insertOne, which gives the object its _id.
RoomLookedUp(r) ==
  /\ pc[r] = "awaitRoom"
  /\ \/ \E e \in StoreErrors :
          /\ Respond(r, 500, FailedToCreate(e))
          /\ rejected' = [rejected EXCEPT ![r] = "rooms.findOne"]
          /\ UNCHANGED <<roomSeen, reservation, storeOps, nextOid>>
     \/ LET room == findOne(rooms, oid[r]) IN
          /\ roomSeen' = [roomSeen EXCEPT ![r] = room]
          /\ IF room = Nil
             THEN /\ RoomNotFound(r)
                  /\ UNCHANGED <<reservation, storeOps, nextOid>>
             ELSE /\ reservation' = [reservation EXCEPT ![r] =
                       WithId(BuildReservation(req[r].body, room, oid[r]), GenId(nextOid))]
                  /\ nextOid' = nextOid + 1
                  /\ storeOps' = [storeOps EXCEPT ![r] = Append(@, "reservations.insertOne")]
                  /\ pc' = [pc EXCEPT ![r] = "awaitInsert"]
                  /\ UNCHANGED resp
          /\ UNCHANGED rejected
  /\ UNCHANGED <<rooms, reservations, req, oid, mail, roomAtInsert>>

\* insertOne that keeps one document per content.
insertOne_Dedup(docs, doc) ==
  IF \E d \in Range(docs) : [d EXCEPT !._id = doc._id] = doc
  THEN docs ELSE Append(docs, doc)

\* What the store does with insertOne(doc).
insertOne(docs, doc) == Append(docs, doc)

\* ReservationInserted with the room checked again at the insert, as one
\* transaction with the lookup would.
ReservationInserted_RoomChecked(r) ==
  /\ pc[r] = "awaitInsert"
  /\ \/ \E e \in StoreErrors :
          /\ Respond(r, 500, FailedToCreate(e))
          /\ rejected' = [rejected EXCEPT ![r] = "reservations.insertOne"]
          /\ UNCHANGED <<reservations, roomAtInsert, mail>>
     \/ /\ roomAtInsert' = [roomAtInsert EXCEPT ![r] =
               IF findOne(rooms, reservation[r].roomId) = Nil THEN "absent" ELSE "present"]
        /\ IF findOne(rooms, reservation[r].roomId) = Nil
           THEN /\ Respond(r, 400, [errors |-> <<[msg |-> "room does not exist"]>>])
                /\ UNCHANGED <<reservations, mail>>
           ELSE /\ reservations' = Append(reservations, reservation[r])
                /\ mail' = [mail EXCEPT ![r] =
                     [state |-> "pending", options |-> MailOptions(reservation[r], reservation[r]._id)]]
                /\ pc' = [pc EXCEPT ![r] = "awaitMail"]
                /\ UNCHANGED resp
        /\ UNCHANGED rejected
  /\ UNCHANGED <<rooms, nextOid, req, oid, reservation, storeOps, roomSeen>>

\* insertOne settles.  Rejected: nothing is stored, and the outer catch
\* answers 500.  Resolved: the document is in the collection, and the
\* handler makes the message and calls sendMail.
ReservationInserted(r) ==
  /\ pc[r] = "awaitInsert"
  /\ \/ \E e \in StoreErrors :
          /\ Respond(r, 500, FailedToCreate(e))
          /\ rejected' = [rejected EXCEPT ![r] = "reservations.insertOne"]
          /\ UNCHANGED <<reservations, roomAtInsert, mail>>
     \/ /\ reservations' = insertOne(reservations, reservation[r])
        /\ roomAtInsert' = [roomAtInsert EXCEPT ![r] =
             IF findOne(rooms, reservation[r].roomId) = Nil THEN "absent" ELSE "present"]
        /\ mail' = [mail EXCEPT ![r] =
             [state |-> "pending", options |-> MailOptions(reservation[r], reservation[r]._id)]]
        /\ pc' = [pc EXCEPT ![r] = "awaitMail"]
        /\ UNCHANGED <<resp, rejected>>
  /\ UNCHANGED <<rooms, nextOid, req, oid, reservation, storeOps, roomSeen>>

\* Lines 183-184: the response of a created reservation.
RespondCreated(r) == Respond(r, 201, InsertedReservation(reservation[r]))

\* OnMailError with the error reaching the outer catch.
OnMailError_Propagated(r) ==
  Respond(r, 500, FailedToCreate("mail fault"))

\* The catch of lines 179-181 logs the error; the handler goes on to the
\* response.
OnMailError(r) == RespondCreated(r)

\* sendMail resolves: the message is delivered.
MailSent(r) ==
  /\ pc[r] = "awaitMail"
  /\ mail' = [mail EXCEPT ![r].state = "sent"]
  /\ RespondCreated(r)
  /\ UNCHANGED <<rooms, reservations, nextOid, req, oid, reservation, storeOps,
                 roomSeen, roomAtInsert, rejected>>

\* sendMail throws or rejects.
MailFailed(r) ==
  /\ pc[r] = "awaitMail"
  /\ mail' = [mail EXCEPT ![r].state = "failed"]
  /\ OnMailError(r)
  /\ UNCHANGED <<rooms, reservations, nextOid, req, oid, reservation, storeOps,
                 roomSeen, roomAtInsert, rejected>>

\* ---------------------------------------- GET /api/reservations/:id

\* The request arrives and the handler runs up to its first await: the 500
\* of a new ObjectId(req.params.id) that throws, or the
\* reservations.findOne it issues.
GetReservation(r, id) ==
  /\ Arrives(r)
  /\ req' = [req EXCEPT ![r] = [method |-> "GET", id |-> id]]
  /\ \E o \in ObjectId(id) :
       IF o.ok
       THEN /\ oid' = [oid EXCEPT ![r] = o.id]
            /\ storeOps' = [storeOps EXCEPT ![r] = Append(@, "reservations.findOne")]
            /\ pc' = [pc EXCEPT ![r] = "awaitReservation"]
            /\ UNCHANGED resp
       ELSE /\ Respond(r, 500, FailedToFetch)
            /\ UNCHANGED <<oid, storeOps>>
  /\ UNCHANGED <<rooms, reservations, nextOid, reservation, mail, roomSeen,
                 roomAtInsert, rejected>>

\* reservations.findOne settles: the 500 of the catch when it rejects, the
\* 404 of no reservation, or the rooms.findOne the handler issues for the
\* reservation's roomId.
ReservationLookedUp(r) ==
  /\ pc[r] = "awaitReservation"
  /\ \/ \E e \in StoreErrors :
          /\ Respond(r, 500, FailedToFetch)
          /\ rejected' = [rejected EXCEPT ![r] = "reservations.findOne"]
          /\ UNCHANGED <<reservation, storeOps>>
     \/ LET found == findOne(Range(reservations), oid[r]) IN
          /\ IF found = Nil
             THEN /\ Respond(r, 404, [error |-> "Reservation not found"])
                  /\ UNCHANGED <<reservation, storeOps>>
             ELSE /\ reservation' = [reservation EXCEPT ![r] = found]
                  /\ storeOps' = [storeOps EXCEPT ![r] = Append(@, "rooms.findOne")]
                  /\ pc' = [pc EXCEPT ![r] = "awaitJoin"]
                  /\ UNCHANGED resp
          /\ UNCHANGED rejected
  /\ UNCHANGED <<rooms, reservations, nextOid, req, oid, mail, roomSeen, roomAtInsert>>

\* JoinedReservation with the stored snapshot left in place.
JoinedReservation_Snapshot(res, room) == res

\* { ...reservation, roomDetails: room }
JoinedReservation(res, room) == [res EXCEPT !.roomDetails = room]

\* rooms.findOne settles: the 500 of the catch when it rejects, the 404 of
\* no room, or the reservation with the room as its roomDetails.
RoomJoined(r) ==
  /\ pc[r] = "awaitJoin"
  /\ \/ \E e \in StoreErrors :
          /\ Respond(r, 500, FailedToFetch)
          /\ rejected' = [rejected EXCEPT ![r] = "rooms.findOne"]
          /\ UNCHANGED roomSeen
     \/ LET room == findOne(rooms, reservation[r].roomId) IN
          /\ roomSeen' = [roomSeen EXCEPT ![r] = room]
          /\ IF room = Nil
             THEN Respond(r, 404, [error |-> "Room not found"])
             ELSE Respond(r, 200, JoinedReservation(reservation[r], room))
          /\ UNCHANGED rejected
  /\ UNCHANGED <<rooms, reservations, nextOid, req, oid, reservation, storeOps,
                 mail, roomAtInsert>>

\* ------------------------------------------ the rooms, from outside

\* Whoever maintains the rooms changes a room's price.
UpdateRoom(id, price) ==
  /\ \E d \in rooms :
       /\ d._id = id
       /\ d.price # price
       /\ rooms' = (rooms \ {d}) \cup {[d EXCEPT !.price = price]}
  /\ UNCHANGED <<reservations, nextOid, pc, req, oid, reservation, resp, storeOps,
                 mail, roomSeen, roomAtInsert, rejected>>

\* Whoever maintains the rooms deletes a room; nothing cascades.
DeleteRoom(id) ==
  /\ \E d \in rooms : d._id = id /\ rooms' = rooms \ {d}
  /\ UNCHANGED <<reservations, nextOid, pc, req, oid, reservation, resp, storeOps,
                 mail, roomSeen, roomAtInsert, rejected>>

\* The rooms that are changed or deleted in the behaviours of the model.
RoomIds == {RoomA_Id}

Next ==
  \/ \E r \in Requests, id \in PathIds : GetReservation(r, id)
  \/ \E r \in Requests : ReservationLookedUp(r)
  \/ \E r \in Requests : RoomJoined(r)
  \/ \E r \in Requests, b \in Payloads : CreateReservation(r, b)
  \/ \E r \in Requests : RoomLookedUp(r)
  \/ \E r \in Requests : ReservationInserted(r)
  \/ \E r \in Requests : MailSent(r)
  \/ \E r \in Requests : MailFailed(r)
  \/ \E id \in RoomIds, p \in Prices : UpdateRoom(id, p)
  \/ \E id \in RoomIds : DeleteRoom(id)

Spec == Init /\ [][Next]_vars

\* The store settles every operation issued to it, by resolving or by
\* rejecting, and the handler goes on when it does.  Nothing is assumed of the mail transport: sendMail may
\* resolve, reject, or never settle.
FairSpec ==
  /\ Spec
  /\ \A r \in Requests :
       /\ WF_vars(RoomLookedUp(r))
       /\ WF_vars(ReservationInserted(r))
       /\ WF_vars(ReservationLookedUp(r))
       /\ WF_vars(RoomJoined(r))

\* -------------------------------------------------------------- claims

IsPost(r) == req[r] # Nil /\ req[r].method = "POST"

IsGet(r) == req[r] # Nil /\ req[r].method = "GET"

Done(r) == pc[r] = "done"

\* The POST requests whose insertOne the store has performed.
Inserted == {r \in Requests : IsPost(r) /\ mail[r].state # "none"}

\* The requests answered 201.
Created == {r \in Requests : resp[r].status = 201}

\* The body of a 201: the document handed to insertOne, and its
\* identifier as id.
IsRecordOf(body, doc) ==
  /\ DOMAIN body = DOMAIN doc \cup {"id"}
  /\ body.id = doc._id
  /\ \A f \in DOMAIN doc : body[f] = doc[f]

\* The string spells no ObjectId: it is not 24 hex characters.
Malformed(s) == ~(Len(s) = 24 /\ AllIn(s, HexChars))

\* C1: once sendMail has settled, by failing as by resolving, the request
\* is answered 201 with the record that was inserted, and that record is
\* in the reservations collection.
C1_MailFailureKeepsOutcome ==
  \A r \in Requests :
    (Done(r) /\ mail[r].state \in {"failed", "sent"}) =>
      /\ resp[r].status = 201
      /\ IsRecordOf(resp[r].body, reservation[r])
      /\ \E i \in 1..Len(reservations) : reservations[i] = reservation[r]

C1_Witness ==
  \E r \in Requests :
    /\ Done(r) /\ mail[r].state = "failed"
    /\ resp[r].status = 201
    /\ \E i \in 1..Len(reservations) : reservations[i] = reservation[r]

\* C2: a POST whose body has a validation error is answered 400 with the
\* list of errors at once, having issued no store operation, built no
\* reservation and called no sendMail; and every document of the
\* reservations collection comes from a POST whose body had no error.
C2_ValidationErrorStopsAll ==
  /\ \A r \in Requests :
       (IsPost(r) /\ validationResult(req[r].sent) # <<>>) =>
         /\ Done(r)
         /\ resp[r] = [status |-> 400, body |-> [errors |-> validationResult(req[r].sent)]]
         /\ storeOps[r] = <<>>
         /\ reservation[r] = Nil
         /\ mail[r].state = "none"
  /\ \A i \in 1..Len(reservations) :
       \E r \in Requests :
         /\ IsPost(r) /\ validationResult(req[r].sent) = <<>>
         /\ reservation[r] = reservations[i]

C2_Witness ==
  \E r \in Requests :
    /\ IsPost(r) /\ Done(r)
    /\ req[r].sent.checkOut = Str(Date_0501) /\ req[r].sent.checkIn = Str(Date_0501)
    /\ resp[r].status = 400
    /\ \E i \in 1..Len(resp[r].body.errors) : resp[r].body.errors[i].path = "checkOut"
    /\ storeOps[r] = <<>> /\ reservation[r] = Nil /\ mail[r].state = "none"

\* C3 as stated: a POST whose body has no validation error and whose roomId
\* matched no room when the handler came to resolve it (the store having
\* rejected nothing) is answered 400 with the room-does-not-exist error
\* (not the list of validation errors, not a 500), having built and
\* inserted no reservation and called no sendMail.
C3_UnknownRoomRejected ==
  \A r \in Requests :
    ( /\ IsPost(r) /\ validationResult(req[r].sent) = <<>>
      /\ pc[r] # "awaitRoom"
      /\ rejected[r] = "" /\ roomSeen[r] = Nil ) =>
      /\ Done(r)
      /\ resp[r] = [status |-> 400, body |-> [errors |-> <<[msg |-> "room does not exist"]>>]]
      /\ reservation[r] = Nil
      /\ r \notin Inserted
      /\ mail[r].state = "none"

\* The part of C3 the code keeps: the same, for a POST whose rooms.findOne
\* was issued and resolved with no room.
C3_UnknownRoomRejected_LookedUp ==
  \A r \in Requests :
    ( /\ IsPost(r) /\ validationResult(req[r].sent) = <<>>
      /\ storeOps[r] # <<>> /\ pc[r] # "awaitRoom"
      /\ rejected[r] = "" /\ roomSeen[r] = Nil ) =>
      /\ Done(r)
      /\ resp[r] = [status |-> 400, body |-> [errors |-> <<[msg |-> "room does not exist"]>>]]
      /\ storeOps[r] = <<"rooms.findOne">>
      /\ reservation[r] = Nil
      /\ r \notin Inserted
      /\ mail[r].state = "none"

C3_Witness_LookedUp ==
  \E r \in Requests :
    /\ IsPost(r) /\ Done(r)
    /\ validationResult(req[r].sent) = <<>>
    /\ storeOps[r] = <<"rooms.findOne">>
    /\ rejected[r] = "" /\ roomSeen[r] = Nil
    /\ resp[r].status = 400

\* The parts of C4 that do not concern userId, for a request r whose
\* insertOne the store has performed: status, roomId and roomDetails of
\* the reservation, which is in the collection and is what a response
\* carries.
C4_RecordOf(r) ==
  /\ reservation[r].status = "confirmed"
  /\ reservation[r].roomId = ToLowerHex(req[r].sent.roomId.v)
  /\ roomSeen[r] # Nil
  /\ reservation[r].roomDetails =
       [price |-> roomSeen[r].price, image |-> roomSeen[r].image, name |-> roomSeen[r].name]
  /\ \E i \in 1..Len(reservations) : reservations[i] = reservation[r]
  /\ (Done(r) => resp[r].status = 201 /\ IsRecordOf(resp[r].body, reservation[r]))

\* C4 as stated: userId is the submitted userId, or "guest" when userId is
\* absent.
C4_AsStated ==
  \A r \in Inserted :
    /\ C4_RecordOf(r)
    /\ reservation[r].userId =
         (IF IsUndefined(req[r].sent.userId) THEN Guest ELSE req[r].sent.userId)

\* C4, amended: the record persisted and returned has status "confirmed",
\* the submitted roomId, the price, image and name of the room as the
\* lookup returned it, and as userId the submitted userId, or "guest" when
\* userId is absent or the empty string.
C4_RecordFields ==
  \A r \in Inserted :
    /\ C4_RecordOf(r)
    /\ reservation[r].userId =
         (IF IsUndefined(req[r].sent.userId) \/ req[r].sent.userId = Str(<<>>)
          THEN Guest ELSE req[r].sent.userId)

C4_Witness ==
  \E r \in Inserted :
    /\ Done(r) /\ resp[r].status = 201
    /\ req[r].sent.userId = Str(<<>>)
    /\ resp[r].body.userId = Guest
    /\ \E d \in rooms : d._id = reservation[r].roomId /\ d.price # resp[r].body.roomDetails.price

\* Some reservation has the identifier the string spells.
SomeReservationHas(s) ==
  \E i \in 1..Len(reservations) : reservations[i]._id = ToLowerHex(s)

\* C5 as stated: a GET for an identifier no reservation has is answered
\* 404 "Reservation not found"; a GET that found its reservation and then
\* no room for it is answered 404 "Room not found" (the store having
\* rejected none of the handler's operations).
C5_NotFound ==
  \A r \in Requests :
    (IsGet(r) /\ Done(r) /\ rejected[r] = "") =>
      /\ ~SomeReservationHas(req[r].id) =>
           resp[r] = [status |-> 404, body |-> [error |-> "Reservation not found"]]
      /\ (reservation[r] # Nil /\ roomSeen[r] = Nil) =>
           resp[r] = [status |-> 404, body |-> [error |-> "Room not found"]]

\* The part of C5 the code keeps: the same, for a GET whose :id is 24 hex
\* characters.
C5_NotFound_WellFormedId ==
  \A r \in Requests :
    (IsGet(r) /\ Done(r) /\ rejected[r] = "" /\ ~Malformed(req[r].id)) =>
      /\ ~SomeReservationHas(req[r].id) =>
           resp[r] = [status |-> 404, body |-> [error |-> "Reservation not found"]]
      /\ (reservation[r] # Nil /\ roomSeen[r] = Nil) =>
           resp[r] = [status |-> 404, body |-> [error |-> "Room not found"]]

C5_Witness_RoomDeleted ==
  \E r \in Requests :
    /\ IsGet(r) /\ Done(r) /\ rejected[r] = ""
    /\ reservation[r] # Nil /\ roomSeen[r] = Nil
    /\ resp[r].status = 404

\* C6: the 200 of a GET carries the reservation as stored, but for
\* roomDetails, which is the document the rooms collection holds for the
\* reservation's roomId at the step that answers.
C6_ReadTimeRoom ==
  [][\A r \in Requests :
       (pc[r] = "awaitJoin" /\ resp'[r].status = 200) =>
         /\ resp'[r].body.roomDetails \in rooms
         /\ resp'[r].body.roomDetails._id = reservation[r].roomId
         /\ \E i \in 1..Len(reservations) :
              /\ reservations[i]._id = oid[r]
              /\ DOMAIN resp'[r].body = DOMAIN reservations[i]
              /\ \A f \in DOMAIN reservations[i] \ {"roomDetails"} :
                   resp'[r].body[f] = reservations[i][f]]_vars

C6_Witness ==
  \E r \in Requests :
    /\ IsGet(r) /\ Done(r) /\ resp[r].status = 200
    /\ resp[r].body.roomDetails \in rooms
    /\ resp[r].body.roomDetails.price # reservation[r].roomDetails.price

\* The identifier a request carries: the body's roomId, the path's id.
IdentifierOf(r) == IF IsPost(r) THEN toString(req[r].sent.roomId) ELSE req[r].id

\* C7 as stated: a request with a malformed identifier issues no store
\* operation and is answered 400 or 404.
C7_MalformedRejected ==
  \A r \in Requests :
    (req[r] # Nil /\ Malformed(IdentifierOf(r))) =>
      /\ storeOps[r] = <<>>
      /\ Done(r)
      /\ resp[r].status \in {400, 404}

\* C8 as stated: a POST whose reservation has been inserted is eventually
\* answered 201, whatever the mail transport does.
C8_ResponseNotDelayed ==
  \A r \in Requests : (pc[r] = "awaitMail") ~> (resp[r].status = 201)

\* C9: the reservations collection holds one document per performed
\* insertOne, all with different identifiers; every 201 names exactly one
\* of them, and no two 201s name the same.
C9_NoDeduplication ==
  /\ Len(reservations) = Cardinality(Inserted)
  /\ \A i, j \in 1..Len(reservations) :
       i # j => reservations[i]._id # reservations[j]._id
  /\ \A r \in Created :
       Cardinality({i \in 1..Len(reservations) : reservations[i]._id = resp[r].body.id}) = 1
  /\ \A r1, r2 \in Created : r1 # r2 => resp[r1].body.id # resp[r2].body.id

C9_Witness ==
  \E r1, r2 \in Created :
    /\ r1 # r2
    /\ req[r1].sent = req[r2].sent
    /\ resp[r1].body.id # resp[r2].body.id
    /\ [resp[r1].body EXCEPT !.id = "", !._id = ""] = [resp[r2].body EXCEPT !.id = "", !._id = ""]
    /\ Len(reservations) = 2

\* C10: whatever has become of the room since the lookup found it, an
\* insertOne the store does not reject leaves the reservation inserted and
\* the handler goes on to the mail and the 201: a request whose room was
\* gone at the insert is one whose lookup had found the room, and it is
\* never answered anything but 201.
C10_InsertIgnoresRoom ==
  /\ [][\A r \in Requests :
          (pc[r] = "awaitInsert" /\ pc'[r] # "awaitInsert" /\ rejected'[r] = "") =>
            /\ reservations' = Append(reservations, reservation[r])
            /\ pc'[r] = "awaitMail"]_vars
  /\ [](\A r \in Requests :
          (roomAtInsert[r] = "absent") =>
            /\ roomSeen[r] # Nil
            /\ \E i \in 1..Len(reservations) : reservations[i] = reservation[r]
            /\ (Done(r) => resp[r].status = 201))

C10_Witness ==
  \E r \in Requests :
    /\ roomAtInsert[r] = "absent"
    /\ resp[r].status = 201
    /\ \E i \in 1..Len(reservations) :
         /\ reservations[i]._id = resp[r].body.id
         /\ ~\E d \in rooms : d._id = reservations[i].roomId

====
